---- MODULE Spec2Model ----
(***************************************************************************)
(* A model of train_mbes.py: the start-up (dataset construction with       *)
(* get_data_transform), the main loop (train_for_one_epoch, validate,      *)
(* checkpoint save, scheduler step) with its KeyboardInterrupt handler,    *)
(* the helpers custom_collate and the validation metrics, and the Langevin *)
(* denoiser that validate calls.                                           *)
(*                                                                         *)
(* Numbers are abstracted as follows.  A loss, a gradient norm and a       *)
(* per-sample metric are small naturals.  A quotient a / b is the pair     *)
(* [num |-> a, den |-> b]; two quotients are compared by cross             *)
(* multiplication (RatEq).  The model parameters are identified by the     *)
(* number of optimizer steps applied to them.  A point is one integer      *)
(* coordinate and a cloud is a sequence of points.                         *)
(***************************************************************************)
EXTENDS Integers, Sequences, FiniteSets, TLC

VARIABLES
    pc,                 \* position of the script
    args,               \* the loaded configuration
    data,               \* sizes of the loaders: len(train_loader), len(val_dset)
    train_dset,         \* transform of the train dataset, NotBuilt before
    val_dset,           \* transform of the validation dataset
    error,              \* the exception that ended the script, "none" if none
    logger,             \* the last line given to logger.info
    epoch,              \* loop variable of the main loop
    i,                  \* loop variable of train_for_one_epoch
    loss,               \* loss and orig_grad_norm of the current iteration
    running,            \* running_loss and running_grad
    params,             \* model parameters: optimizer steps applied so far
    sched,              \* scheduler state: scheduler steps applied so far
    writer,             \* the scalars of the latest writer.flush()
    vbatch,             \* index of the next batch of val_loader in validate
    all_chamfer,        \* validate's list of per-batch chamfer distances
    all_point_corr_distance, \* validate's list of per-batch distances
    val_result,         \* (cd_loss, diff_loss) returned by the last validate
    pending,            \* the checkpoint being written, NoCkpt if none
    ckpts,              \* the checkpoints whose save completed, in order
    hist,               \* history: what the checks below need to remember
    fn                  \* state of the pure-function specifications

vars == <<pc, args, data, train_dset, val_dset, error, logger, epoch, i, loss,
          running, params, sched, writer, vbatch, all_chamfer,
          all_point_corr_distance, val_result, pending, ckpts, hist, fn>>

prog == <<pc, args, data, train_dset, val_dset, error, logger, epoch, i, loss,
          running, params, sched, writer, vbatch, all_chamfer,
          all_point_corr_distance, val_result, pending, ckpts, hist>>

----------------------------------------------------------------------------
(* Bounds of the model *)

MaxEpochs == 2
MaxTrainBatches == 3
MaxLogInterval == 3
MaxValSamples == 3
MaxValBatch == 2
MaxNoise == 2
MaxPoints == 2
MaxBatch == 2

\* The (loss, orig_grad_norm) pairs an iteration may produce, and the
\* (chamfer, point-correspondence) pairs a validation sample may produce.
TrainOutcomes == {[loss |-> 1, grad |-> 3], [loss |-> 2, grad |-> 1]}
ValOutcomes == {[chamfer |-> 1, diff |-> 3], [chamfer |-> 2, diff |-> 1]}

----------------------------------------------------------------------------
(* Arithmetic helpers *)

Rat(a, b) == [num |-> a, den |-> b]

RatEq(x, y) == x.den # 0 /\ y.den # 0 /\ x.num * y.den = y.num * x.den

RECURSIVE SumSeq(_)
SumSeq(s) == IF s = <<>> THEN 0 ELSE Head(s) + SumSeq(Tail(s))

Min2(a, b) == IF a < b THEN a ELSE b

----------------------------------------------------------------------------
(* Configuration and get_data_transform *)

None == "None"

\* The transform names a configuration may hold; the last two are not
\* transforms the script knows.
TransformNames == {None, "add_noise_to_clean", "add_noise_to_noisy",
                   "add_noise", "AddNoise"}

NoiseLevels == 1..MaxNoise

DatasetArgs == [transform : TransformNames,
                noise_min : NoiseLevels, noise_max : NoiseLevels]

\* get_data_transform without its else branch: an unknown name yields no
\* transform.
get_data_transform_no_else(args_dataset) ==
    IF args_dataset.transform = "add_noise_to_clean"
    THEN [raised |-> "none", type |-> "AddNoise",
          noise_std_min |-> args_dataset.noise_min,
          noise_std_max |-> args_dataset.noise_max]
    ELSE IF args_dataset.transform = "add_noise_to_noisy"
    THEN [raised |-> "none", type |-> "AddNoiseToNoisyPCL",
          noise_std_min |-> args_dataset.noise_min,
          noise_std_max |-> args_dataset.noise_max]
    ELSE [raised |-> "none", type |-> None,
          noise_std_min |-> 0, noise_std_max |-> 0]

\* get_data_transform: the transform returned (type None for no transform),
\* or the exception raised.
get_data_transform(args_dataset) ==
    IF args_dataset.transform = None
    THEN [raised |-> "none", type |-> None,
          noise_std_min |-> 0, noise_std_max |-> 0]
    ELSE IF args_dataset.transform = "add_noise_to_clean"
    THEN [raised |-> "none", type |-> "AddNoise",
          noise_std_min |-> args_dataset.noise_min,
          noise_std_max |-> args_dataset.noise_max]
    ELSE IF args_dataset.transform = "add_noise_to_noisy"
    THEN [raised |-> "none", type |-> "AddNoiseToNoisyPCL",
          noise_std_min |-> args_dataset.noise_min,
          noise_std_max |-> args_dataset.noise_max]
    ELSE [raised |-> "ValueError", type |-> None,
          noise_std_min |-> 0, noise_std_max |-> 0]

NotBuilt == [raised |-> "none", type |-> "NotBuilt",
             noise_std_min |-> 0, noise_std_max |-> 0]

----------------------------------------------------------------------------
(* The inputs of a run *)

GoodDataset == [transform |-> None, noise_min |-> 1, noise_max |-> 1]

\* Every dataset configuration, with the smallest loop.
ConfigSweep ==
    [train_dataset : DatasetArgs, val_dataset : DatasetArgs,
     log_interval : {1}, max_epochs : {1}, val_batch_size : {1}]

\* Every loop configuration, with datasets that load.
LoopSweep ==
    [train_dataset : {GoodDataset}, val_dataset : {GoodDataset},
     log_interval : 1..MaxLogInterval, max_epochs : {MaxEpochs},
     val_batch_size : 1..MaxValBatch]

DataSizes == [len_train_loader : 1..MaxTrainBatches, n_val : 1..MaxValSamples]

NoCkpt == [score |-> Rat(0, 0), step |-> -1, optimizer |-> -1,
           scheduler |-> -1, model |-> -1]

NoWindow == [loss |-> 0, grad |-> 0, n |-> 0]

NoFn == [op |-> "none"]

HistInit == [acc |-> NoWindow, wrote |-> NoWindow, train_end_params |-> -1,
             val_reads |-> {}, intr |-> "none", started |-> 0, issued |-> 0]

ProgInit ==
    /\ pc = "load_train"
    /\ train_dset = NotBuilt
    /\ val_dset = NotBuilt
    /\ error = "none"
    /\ logger = "Loading datasets"
    /\ epoch = 0
    /\ i = 0
    /\ loss = [loss |-> 0, grad |-> 0]
    /\ running = [loss |-> 0, grad |-> 0]
    /\ params = 0
    /\ sched = 0
    /\ writer = {}
    /\ vbatch = 0
    /\ all_chamfer = <<>>
    /\ all_point_corr_distance = <<>>
    /\ val_result = [cd_loss |-> Rat(0, 0), diff_loss |-> Rat(0, 0)]
    /\ pending = NoCkpt
    /\ ckpts = <<>>
    /\ hist = HistInit

Init ==
    /\ \/ args \in ConfigSweep /\ data = [len_train_loader |-> 1, n_val |-> 1]
       \/ args \in LoopSweep /\ data \in DataSizes
    /\ ProgInit
    /\ fn = NoFn

----------------------------------------------------------------------------
(* Start-up: the datasets *)

Raise(e) ==
    /\ pc' = "crashed"
    /\ error' = e

\* train_dset = MBESPatchDataset(..., transform=get_data_transform(...))
LoadTrainDset ==
    /\ pc = "load_train"
    /\ LET t == get_data_transform(args.train_dataset)
       IN  IF t.raised # "none"
           THEN Raise(t.raised) /\ UNCHANGED train_dset
           ELSE pc' = "load_val" /\ train_dset' = t /\ UNCHANGED error
    /\ UNCHANGED <<args, data, val_dset, logger, epoch, i, loss, running,
                   params, sched, writer, vbatch, all_chamfer,
                   all_point_corr_distance, val_result, pending, ckpts,
                   hist, fn>>

\* val_dset = MBESPatchDataset(..., transform=get_data_transform(...)), then
\* the loaders, the model, the optimizer and 'Start training...'
LoadValDset ==
    /\ pc = "load_val"
    /\ LET t == get_data_transform(args.val_dataset)
       IN  IF t.raised # "none"
           THEN Raise(t.raised) /\ UNCHANGED <<val_dset, logger>>
           ELSE /\ pc' = "loop"
                /\ val_dset' = t
                /\ logger' = "Start training..."
                /\ UNCHANGED error
    /\ UNCHANGED <<args, data, train_dset, epoch, i, loss, running,
                   params, sched, writer, vbatch, all_chamfer,
                   all_point_corr_distance, val_result, pending, ckpts,
                   hist, fn>>

----------------------------------------------------------------------------
(* train_for_one_epoch *)

\* for epoch in range(args.max_epochs): the next epoch enters
\* train_for_one_epoch, the end of the range ends the script.
ForEpoch ==
    /\ pc = "loop"
    /\ IF epoch < args.max_epochs
       THEN /\ pc' = "train_iter"
            /\ i' = 0
            /\ running' = [loss |-> 0, grad |-> 0]
            /\ hist' = [hist EXCEPT !.acc = NoWindow, !.wrote = NoWindow,
                                    !.started = @ + 1]
       ELSE /\ pc' = "done"
            /\ UNCHANGED <<i, running, hist>>
    /\ UNCHANGED <<args, data, train_dset, val_dset, error, logger, epoch,
                   loss, params, sched, writer, vbatch, all_chamfer,
                   all_point_corr_distance, val_result, pending, ckpts, fn>>

\* zero_grad, get_supervised_loss, backward, clip_grad_norm_, optimizer.step
TrainStep ==
    /\ pc = "train_iter"
    /\ loss' \in TrainOutcomes
    /\ params' = params + 1
    /\ pc' = "train_log"
    /\ UNCHANGED <<args, data, train_dset, val_dset, error, logger, epoch, i,
                   running, sched, writer, vbatch, all_chamfer,
                   all_point_corr_distance, val_result, pending, ckpts,
                   hist, fn>>

\* i % args.log_interval == 0
LogDue(ii, log_interval) == ii % log_interval = 0

\* avg_loss_per_iter = running_loss / args.log_interval (and the gradient)
AvgPerIter(run, log_interval) == Rat(run, log_interval)

\* The scalars of one training write.
TrainScalars(run, log_interval, step, lr) ==
    {[tag |-> "train/loss", value |-> AvgPerIter(run.loss, log_interval),
      step |-> step],
     [tag |-> "train/lr", value |-> Rat(lr, 1), step |-> step],
     [tag |-> "train/grad_norm", value |-> AvgPerIter(run.grad, log_interval),
      step |-> step]}

\* validate called from inside the loop over train_loader.
AfterIterationInLoop(ii, len) == "validate"

\* enumerate(train_loader): the position after iteration ii of len
AfterIteration(ii, len) == IF ii + 1 < len THEN "train_iter" ELSE "validate"

\* running_loss += ..., running_grad += ..., the write every log_interval
\* iterations, and the step of the for loop
TrainLog ==
    /\ pc = "train_log"
    /\ LET run == [loss |-> running.loss + loss.loss,
                   grad |-> running.grad + loss.grad]
           acc == [loss |-> hist.acc.loss + loss.loss,
                   grad |-> hist.acc.grad + loss.grad,
                   n |-> hist.acc.n + 1]
           nxt == AfterIteration(i, data.len_train_loader)
           ended == IF nxt = "validate" THEN params ELSE hist.train_end_params
       IN  /\ IF LogDue(i, args.log_interval)
              THEN /\ writer' = TrainScalars(run, args.log_interval,
                                    epoch * data.len_train_loader + i, sched)
                   /\ logger' = "[Train]"
                   /\ running' = [loss |-> 0, grad |-> 0]
                   /\ hist' = [hist EXCEPT !.acc = NoWindow, !.wrote = acc,
                                           !.train_end_params = ended]
              ELSE /\ running' = run
                   /\ hist' = [hist EXCEPT !.acc = acc, !.wrote = NoWindow,
                                           !.train_end_params = ended]
                   /\ UNCHANGED <<writer, logger>>
           /\ pc' = nxt
    /\ i' = i + 1
    /\ UNCHANGED <<args, data, train_dset, val_dset, error, epoch, loss,
                   params, sched, vbatch, all_chamfer,
                   all_point_corr_distance, val_result, pending, ckpts, fn>>

----------------------------------------------------------------------------
(* validate *)

\* len(val_loader): batches of val_batch_size, the last one may be smaller
NumValBatches(n, b) == (n + b - 1) \div b

\* The number of samples custom_collate stacks into batch k.
ValBatchLen(k, n, b) == Min2(b, n - k * b)

\* data[...].squeeze(dim=0): the number of dimensions left of a
\* (samples, points, 3) batch; dimension 0 goes only when its size is 1.
SqueezedDims(samples) == IF samples = 1 THEN 2 ELSE 3

\* pytorch3d.loss.chamfer_distance on x.unsqueeze(0): a tensor of dims + 1
\* dimensions, accepted only as (N, P, D).
ChamferAccepts(dims) == dims + 1 = 3

\* all_clean = [] ... all_point_corr_distance = []
ValidateStart ==
    /\ pc = "validate"
    /\ all_chamfer' = <<>>
    /\ all_point_corr_distance' = <<>>
    /\ vbatch' = 0
    /\ hist' = [hist EXCEPT !.val_reads = {}]
    /\ pc' = IF NumValBatches(data.n_val, args.val_batch_size) > 0
             THEN "val_batch" ELSE "val_end"
    /\ UNCHANGED <<args, data, train_dset, val_dset, error, logger, epoch, i,
                   loss, running, params, sched, writer, val_result, pending,
                   ckpts, fn>>

\* One iteration of the loop over val_loader: mbes_denoise with the current
\* parameters, then the two distances of the batch.
ValidateBatch ==
    /\ pc = "val_batch"
    /\ LET dims == SqueezedDims(ValBatchLen(vbatch, data.n_val,
                                            args.val_batch_size))
           last == vbatch + 1 >= NumValBatches(data.n_val,
                                               args.val_batch_size)
       IN  /\ hist' = [hist EXCEPT !.val_reads = @ \cup {params}]
           /\ IF ChamferAccepts(dims)
              THEN /\ \E m \in ValOutcomes :
                        /\ all_chamfer' = Append(all_chamfer, m.chamfer)
                        /\ all_point_corr_distance' =
                               Append(all_point_corr_distance, m.diff)
                   /\ vbatch' = vbatch + 1
                   /\ pc' = IF last THEN "val_end" ELSE "val_batch"
                   /\ UNCHANGED error
              ELSE /\ Raise("ValueError")
                   /\ UNCHANGED <<all_chamfer, all_point_corr_distance,
                                  vbatch>>
    /\ UNCHANGED <<args, data, train_dset, val_dset, logger, epoch, i, loss,
                   running, params, sched, writer, val_result, pending,
                   ckpts, fn>>

\* torch.mean(torch.tensor(values))
TensorMean(values) == Rat(SumSeq(values), Len(values))

\* The scalars validate writes for step it.
ValScalars(avg_chamfer, avg_point_corr_dist, it) ==
    {[tag |-> "val/chamfer", value |-> avg_chamfer, step |-> it],
     [tag |-> "val/diff", value |-> avg_point_corr_dist, step |-> it]}

\* avg_chamfer, avg_point_corr_dist, the two scalars, the return
ValidateFinish ==
    /\ pc = "val_end"
    /\ LET avg_chamfer == TensorMean(all_chamfer)
           avg_point_corr_dist == TensorMean(all_point_corr_distance)
       IN  /\ writer' = ValScalars(avg_chamfer, avg_point_corr_dist, epoch)
           /\ val_result' = [cd_loss |-> avg_chamfer,
                             diff_loss |-> avg_point_corr_dist]
    /\ logger' = "[Val]"
    /\ pc' = "save"
    /\ UNCHANGED <<args, data, train_dset, val_dset, error, epoch, i, loss,
                   running, params, sched, vbatch, all_chamfer,
                   all_point_corr_distance, pending, ckpts, hist, fn>>

----------------------------------------------------------------------------
(* The checkpoint and the scheduler *)

\* The checkpoint scored with the chamfer distance.
SaveArgsChamfer(cd_loss, diff_loss, model, optimizer, scheduler, step) ==
    [score |-> cd_loss, step |-> step, optimizer |-> optimizer,
     scheduler |-> scheduler, model |-> model]

\* What ckpt_mgr.save(model, args, diff_loss, opt_states, step=epoch) is
\* given: opt_states holds the optimizer and the scheduler state.
SaveArgs(cd_loss, diff_loss, model, optimizer, scheduler, step) ==
    [score |-> diff_loss, step |-> step, optimizer |-> optimizer,
     scheduler |-> scheduler, model |-> model]

\* ckpt_mgr.save is called: the checkpoint starts to be written.
SaveBegin ==
    /\ pc = "save"
    /\ pending' = SaveArgs(val_result.cd_loss, val_result.diff_loss, params,
                           params, sched, epoch)
    /\ hist' = [hist EXCEPT !.issued = @ + 1]
    /\ pc' = "saving"
    /\ UNCHANGED <<args, data, train_dset, val_dset, error, logger, epoch, i,
                   loss, running, params, sched, writer, vbatch, all_chamfer,
                   all_point_corr_distance, val_result, ckpts, fn>>

\* The checkpoints kept once one more save has completed.
Persist(kept, ckpt) == Append(kept, ckpt)

\* ckpt_mgr.save returns: the checkpoint is complete.
SaveEnd ==
    /\ pc = "saving"
    /\ ckpts' = Persist(ckpts, pending)
    /\ pending' = NoCkpt
    /\ pc' = "sched"
    /\ UNCHANGED <<args, data, train_dset, val_dset, error, logger, epoch, i,
                   loss, running, params, sched, writer, vbatch, all_chamfer,
                   all_point_corr_distance, val_result, hist, fn>>

\* scheduler.step(), and the next value of the range
SchedulerStep ==
    /\ pc = "sched"
    /\ sched' = sched + 1
    /\ epoch' = epoch + 1
    /\ pc' = "loop"
    /\ UNCHANGED <<args, data, train_dset, val_dset, error, logger, i, loss,
                   running, params, writer, vbatch, all_chamfer,
                   all_point_corr_distance, val_result, pending, ckpts,
                   hist, fn>>

----------------------------------------------------------------------------
(* KeyboardInterrupt *)

LoopPcs == {"loop", "train_iter", "train_log", "validate", "val_batch",
            "val_end", "save", "saving", "sched"}

StartupPcs == {"load_train", "load_val"}

\* A try that holds train_for_one_epoch alone.
InTryTrainOnly(p) == p \in {"loop", "train_iter", "train_log"}

\* The positions inside try: ... except KeyboardInterrupt
InTry(p) == p \in LoopPcs

\* The user interrupts the script wherever it is.
Interrupt ==
    /\ pc \in LoopPcs \cup StartupPcs
    /\ hist' = [hist EXCEPT !.intr = pc]
    /\ IF InTry(pc)
       THEN /\ pc' = "terminated"
            /\ logger' = "Terminating..."
            /\ UNCHANGED error
       ELSE /\ Raise("KeyboardInterrupt")
            /\ UNCHANGED logger
    /\ UNCHANGED <<args, data, train_dset, val_dset, epoch, i, loss, running,
                   params, sched, writer, vbatch, all_chamfer,
                   all_point_corr_distance, val_result, pending, ckpts, fn>>

Next ==
    \/ LoadTrainDset
    \/ LoadValDset
    \/ ForEpoch
    \/ TrainStep
    \/ TrainLog
    \/ ValidateStart
    \/ ValidateBatch
    \/ ValidateFinish
    \/ SaveBegin
    \/ SaveEnd
    \/ SchedulerStep
    \/ Interrupt

Spec == Init /\ [][Next]_vars

----------------------------------------------------------------------------
(* custom_collate *)

PointVals == {0, 1}

\* The clouds of 1 to n points.
Clouds(n) == UNION {[1..k -> PointVals] : k \in 1..n}

\* A patch sample: a clean cloud and its noisy counterpart, point for point.
Samples(n) ==
    {[pcl_clean |-> c, pcl_noisy |-> z, pcl_noisy_mean |-> z[1]] :
        <<c, z>> \in {q \in Clouds(n) \X Clouds(n) : Len(q[1]) = Len(q[2])}}

\* The lists of samples a loader hands to custom_collate.
SampleLists(n, b) == UNION {[1..k -> Samples(n)] : k \in 1..b}

RECURSIVE MaxLen(_)
MaxLen(seqs) ==
    IF seqs = <<>> THEN 0
    ELSE LET m == MaxLen(Tail(seqs))
         IN  IF Len(Head(seqs)) > m THEN Len(Head(seqs)) ELSE m

\* torch.nn.utils.rnn.pad_sequence(seqs, batch_first=True): every sequence
\* padded with zeros to the longest one.
pad_sequence(seqs) ==
    [k \in 1..Len(seqs) |->
        [j \in 1..MaxLen(seqs) |->
            IF j <= Len(seqs[k]) THEN seqs[k][j] ELSE 0]]

\* custom_collate taking the lengths after the padding.
custom_collate_padded_length(d) ==
    LET pcl_clean == pad_sequence([k \in 1..Len(d) |-> d[k].pcl_clean])
        pcl_noisy == pad_sequence([k \in 1..Len(d) |-> d[k].pcl_noisy])
    IN  [pcl_clean |-> pcl_clean,
         pcl_noisy |-> pcl_noisy,
         pcl_noisy_mean |-> [k \in 1..Len(d) |-> d[k].pcl_noisy_mean],
         pcl_length |-> [k \in 1..Len(d) |-> Len(pcl_clean[k])]]


custom_collate(d) ==
    LET pcl_clean == [k \in 1..Len(d) |-> d[k].pcl_clean]
        pcl_noisy == [k \in 1..Len(d) |-> d[k].pcl_noisy]
        pcl_noisy_mean == [k \in 1..Len(d) |-> d[k].pcl_noisy_mean]
        pcl_length == [k \in 1..Len(d) |-> Len(pcl_clean[k])]
    IN  [pcl_clean |-> pad_sequence(pcl_clean),
         pcl_noisy |-> pad_sequence(pcl_noisy),
         pcl_noisy_mean |-> pcl_noisy_mean,
         pcl_length |-> pcl_length]

\* The script parked before the main loop, for the specifications of the
\* functions.
Parked ==
    /\ args = [train_dataset |-> GoodDataset, val_dataset |-> GoodDataset,
               log_interval |-> 1, max_epochs |-> 1, val_batch_size |-> 1]
    /\ data = [len_train_loader |-> 1, n_val |-> 1]
    /\ ProgInit

InitCollate ==
    /\ Parked
    /\ \E d \in SampleLists(MaxPoints, MaxBatch) :
          fn = [op |-> "custom_collate", in |-> d, done |-> FALSE,
                out |-> custom_collate(<<>>)]

\* The loader calls custom_collate on the samples of one batch.
Collate ==
    /\ fn.op = "custom_collate"
    /\ ~fn.done
    /\ fn' = [fn EXCEPT !.out = custom_collate(fn.in), !.done = TRUE]
    /\ UNCHANGED prog

NextCollate == Collate

SpecCollate == InitCollate /\ [][NextCollate]_vars

----------------------------------------------------------------------------
(* The two distances of validate, on one denoised cloud and its clean cloud *)

MetricPointVals == {0, 1, 2}

MetricClouds(n) == UNION {[1..k -> MetricPointVals] : k \in 1..n}

Abs(x) == IF x < 0 THEN 0 - x ELSE x

\* pcl_denoised - pcl_clean on shapes (n, 3) and (m, 3): elementwise when
\* n = m, a single point is broadcast to the other cloud, any other pair of
\* sizes raises.
TensorSub(a, b) ==
    IF Len(a) = Len(b)
    THEN [raised |-> "none", value |-> [j \in 1..Len(a) |-> a[j] - b[j]]]
    ELSE IF Len(a) = 1
    THEN [raised |-> "none", value |-> [j \in 1..Len(b) |-> a[1] - b[j]]]
    ELSE IF Len(b) = 1
    THEN [raised |-> "none", value |-> [j \in 1..Len(a) |-> a[j] - b[1]]]
    ELSE [raised |-> "RuntimeError", value |-> <<>>]

\* torch.linalg.norm(pcl_denoised - pcl_clean, dim=-1).mean().item()
PointCorrDistance(pcl_denoised, pcl_clean) ==
    LET diff == TensorSub(pcl_denoised, pcl_clean)
        norms == [j \in 1..Len(diff.value) |-> Abs(diff.value[j])]
    IN  [raised |-> diff.raised, value |-> Rat(SumSeq(norms), Len(norms))]

\* The squared distance of point x to its nearest neighbour in cloud ys.
RECURSIVE NearestSq(_, _)
NearestSq(x, ys) ==
    LET d == (x - Head(ys)) * (x - Head(ys))
    IN  IF Len(ys) = 1 THEN d ELSE Min2(d, NearestSq(x, Tail(ys)))

\* pytorch3d chamfer_distance with point_reduction='mean': both directions,
\* each averaged over its own cloud; the clouds may differ in size.
ChamferDistance(xs, ys) ==
    LET fwd == SumSeq([j \in 1..Len(xs) |-> NearestSq(xs[j], ys)])
        bwd == SumSeq([j \in 1..Len(ys) |-> NearestSq(ys[j], xs)])
    IN  Rat(fwd * Len(ys) + bwd * Len(xs), Len(xs) * Len(ys))

InitMetric ==
    /\ Parked
    /\ \E x \in MetricClouds(MaxPoints), y \in MetricClouds(MaxPoints) :
          fn = [op |-> "metric", pcl_denoised |-> x, pcl_clean |-> y,
                all_chamfer |-> <<>>, all_point_corr_distance |-> <<>>,
                raised |-> "none", done |-> FALSE]

\* The body of validate's loop after mbes_denoise has returned pcl_denoised:
\* the chamfer distance, then the point-correspondence distance.
Measure ==
    /\ fn.op = "metric"
    /\ ~fn.done
    /\ LET chamfer == ChamferDistance(fn.pcl_denoised, fn.pcl_clean)
           corr == PointCorrDistance(fn.pcl_denoised, fn.pcl_clean)
       IN  fn' = IF corr.raised # "none"
                 THEN [fn EXCEPT !.all_chamfer = Append(@, chamfer),
                                 !.raised = corr.raised, !.done = TRUE]
                 ELSE [fn EXCEPT !.all_chamfer = Append(@, chamfer),
                                 !.all_point_corr_distance =
                                     Append(@, corr.value),
                                 !.done = TRUE]
    /\ UNCHANGED prog

NextMetric == Measure

SpecMetric == InitMetric /\ [][NextMetric]_vars

----------------------------------------------------------------------------
(* mbes_denoise: the Langevin denoiser *)

\* T, the configured number of steps
LdSteps == 3

\* The schedule of step sizes derived from ld_step_size: never increasing.
StepSize(t) == IF t = 0 THEN 2 ELSE 1

\* The model's displacement for one point: towards the surface at 0.
Displacement(x) == IF x > 1 THEN -1 ELSE IF x < -1 THEN 1 ELSE 0

LdPointVals == {-3, -1, 0, 2, 4}

LdClouds(n) == UNION {[1..k -> LdPointVals] : k \in 1..n}

\* A denoiser that also stops once no point moves any more.
LdFinishedConverged(t, x) ==
    t >= LdSteps \/ \A j \in 1..Len(x) : Displacement(x[j]) = 0

\* The denoiser stops after LdSteps steps and for no other reason.
LdFinished(t, x) == t >= LdSteps

\* x <- x + step_size(t) * d_t
LdUpdate(x, t) == [j \in 1..Len(x) |-> x[j] + StepSize(t) * Displacement(x[j])]

InitLangevin ==
    /\ Parked
    /\ \E x \in LdClouds(MaxPoints) :
          fn = [op |-> "mbes_denoise", pcl_noisy |-> x, x |-> x, t |-> 0,
                trace |-> <<>>, done |-> FALSE, out |-> <<>>]

\* One transition of the denoiser.
LangevinStep ==
    /\ fn.op = "mbes_denoise"
    /\ ~fn.done
    /\ ~LdFinished(fn.t, fn.x)
    /\ LET y == LdUpdate(fn.x, fn.t)
       IN  fn' = [fn EXCEPT !.x = y, !.t = @ + 1,
                     !.trace = Append(@, [t |-> fn.t, from |-> fn.x,
                                          to |-> y])]
    /\ UNCHANGED prog

\* The denoiser returns its current cloud.
LangevinReturn ==
    /\ fn.op = "mbes_denoise"
    /\ ~fn.done
    /\ LdFinished(fn.t, fn.x)
    /\ fn' = [fn EXCEPT !.done = TRUE, !.out = fn.x]
    /\ UNCHANGED prog

NextLangevin == LangevinStep \/ LangevinReturn

SpecLangevin == InitLangevin /\ [][NextLangevin]_vars

----------------------------------------------------------------------------
(* The claims *)

ValidationPcs == {"val_batch", "val_end", "save"}

\* C1: validation of an epoch starts only once every optimizer step of that
\* epoch's training pass is applied, and every read of the parameters by a
\* validation pass sees exactly the parameters train_for_one_epoch left: no
\* optimizer step falls between the start and the end of the pass.
C1_ValidationSeesTrainedParams ==
    /\ pc \in ValidationPcs \cup {"validate"} =>
          /\ params = (epoch + 1) * data.len_train_loader
          /\ hist.train_end_params = params
    /\ pc \in ValidationPcs => hist.val_reads \subseteq {hist.train_end_params}

C1_Witness ==
    /\ pc = "save"
    /\ epoch = 1
    /\ data.len_train_loader >= 2
    /\ hist.val_reads = {params}
    /\ Len(all_chamfer) = 2

\* C2: a KeyboardInterrupt arriving anywhere in the main loop is caught:
\* 'Terminating...' is logged, the script ends without an exception, no
\* further epoch starts and the completed checkpoints stay as they were; and
\* nothing runs after the handler.
C2_InterruptHandled ==
    [][/\ pc # "terminated"
       /\ (hist'.intr # hist.intr /\ hist'.intr \in LoopPcs) =>
             /\ pc' = "terminated"
             /\ logger' = "Terminating..."
             /\ error' = "none"
             /\ ckpts' = ckpts
             /\ hist'.started = hist.started]_vars

C2_Witness ==
    /\ pc = "terminated"
    /\ hist.intr = "saving"
    /\ Len(ckpts) = 1
    /\ pending # NoCkpt
    /\ logger = "Terminating..."

RecognizedTransforms == {None, "add_noise_to_clean", "add_noise_to_noisy"}

ConfigError(args_dataset) ==
    \/ args_dataset.transform \notin RecognizedTransforms
    \/ args_dataset.noise_min > args_dataset.noise_max

\* C3: with an unknown transform name or a noise range with
\* noise_min > noise_max in either dataset configuration the script fails
\* during start-up: it never reaches the main loop, takes no optimizer step,
\* runs no validation and saves no checkpoint.
C3_ConfigErrorFailsFast ==
    (ConfigError(args.train_dataset) \/ ConfigError(args.val_dataset)) =>
        /\ pc \in StartupPcs \cup {"crashed"}
        /\ params = 0
        /\ hist.started = 0
        /\ hist.issued = 0
        /\ ckpts = <<>>

\* What get_data_transform is to yield for a dataset configuration.
Dispatched(args_dataset, built) ==
    /\ args_dataset.transform = None => built.type = None
    /\ args_dataset.transform = "add_noise_to_clean" =>
          /\ built.type = "AddNoise"
          /\ built.noise_std_min = args_dataset.noise_min
          /\ built.noise_std_max = args_dataset.noise_max
    /\ args_dataset.transform = "add_noise_to_noisy" =>
          /\ built.type = "AddNoiseToNoisyPCL"
          /\ built.noise_std_min = args_dataset.noise_min
          /\ built.noise_std_max = args_dataset.noise_max
    /\ args_dataset.transform \in RecognizedTransforms

\* C4: get_data_transform dispatches on a closed set: no transform for None,
\* AddNoise for 'add_noise_to_clean', AddNoiseToNoisyPCL for
\* 'add_noise_to_noisy', each with the configured range; any other name
\* raises ValueError and no dataset is built from it.
C4_TransformDispatch ==
    /\ train_dset # NotBuilt => Dispatched(args.train_dataset, train_dset)
    /\ val_dset # NotBuilt => Dispatched(args.val_dataset, val_dset)
    /\ (pc \notin {"load_train"}
          /\ args.train_dataset.transform \notin RecognizedTransforms) =>
          pc = "crashed" /\ error \in {"ValueError", "KeyboardInterrupt"}
                         /\ train_dset = NotBuilt
    /\ (pc \notin StartupPcs
          /\ args.val_dataset.transform \notin RecognizedTransforms) =>
          pc = "crashed" /\ error \in {"ValueError", "KeyboardInterrupt"}
                         /\ val_dset = NotBuilt

C4_Witness ==
    /\ pc = "crashed"
    /\ error = "ValueError"
    /\ train_dset.type = "AddNoise"
    /\ train_dset.noise_std_min = 1
    /\ train_dset.noise_std_max = 2
    /\ args.val_dataset.transform = "add_noise"
    /\ val_dset = NotBuilt

\* C5: when the denoised cloud and the clean cloud differ in their number of
\* points, validate reports it: an error is raised and no
\* point-correspondence distance is appended.
C5_MismatchReported ==
    (fn.op = "metric" /\ fn.done
        /\ Len(fn.pcl_denoised) # Len(fn.pcl_clean)) =>
        /\ fn.raised # "none"
        /\ fn.all_point_corr_distance = <<>>

C7_LangevinRunsAllSteps ==
    fn.op = "mbes_denoise" =>
        /\ Len(fn.trace) = fn.t
        /\ fn.t <= LdSteps
        /\ \A k \in 1..Len(fn.trace) :
              /\ fn.trace[k].t = k - 1
              /\ fn.trace[k].from =
                    (IF k = 1 THEN fn.pcl_noisy ELSE fn.trace[k - 1].to)
        /\ fn.done =>
              /\ Len(fn.trace) = LdSteps
              /\ fn.out = (IF LdSteps = 0 THEN fn.pcl_noisy
                           ELSE fn.trace[LdSteps].to)

C7_Witness ==
    /\ fn.op = "mbes_denoise"
    /\ fn.done
    /\ fn.pcl_noisy = <<4, -3>>
    /\ fn.out = <<1, -1>>

\* The checkpoint the main loop is to save in epoch e.
EpochCheckpoint(e, score) ==
    [score |-> score, step |-> e,
     optimizer |-> (e + 1) * data.len_train_loader,
     scheduler |-> e,
     model |-> (e + 1) * data.len_train_loader]

\* C8: an epoch that completes issues exactly one save, after validate has
\* returned and before the scheduler step; the checkpoint carries the epoch
\* as its step, the optimizer and scheduler state of that moment, and the
\* point-correspondence distance validate returned as its score.
C8_OneCheckpointPerEpoch ==
    /\ pc \in {"train_iter", "train_log", "validate", "val_batch", "val_end",
               "save", "loop", "done"} =>
          /\ hist.issued = epoch
          /\ Len(ckpts) = epoch
          /\ sched = epoch
    /\ pc = "saving" =>
          /\ hist.issued = epoch + 1
          /\ Len(ckpts) = epoch
          /\ sched = epoch
          /\ pending = EpochCheckpoint(epoch, val_result.diff_loss)
    /\ pc = "sched" =>
          /\ hist.issued = epoch + 1
          /\ Len(ckpts) = epoch + 1
          /\ sched = epoch
          /\ ckpts[epoch + 1] = EpochCheckpoint(epoch, val_result.diff_loss)
    /\ \A k \in 1..Len(ckpts) :
          ckpts[k] = EpochCheckpoint(k - 1, ckpts[k].score)

C8_Witness ==
    /\ pc = "sched"
    /\ epoch = 1
    /\ Len(ckpts) = 2
    /\ val_result.cd_loss # val_result.diff_loss
    /\ ckpts[2].score = val_result.diff_loss
    /\ ckpts[1].score # ckpts[2].score

\* A validation pass has run to its end: validate returned, or an error
\* other than the interrupt ended it.
ValidateEnded ==
    \/ pc = "save"
    \/ pc = "crashed" /\ error = "ValueError" /\ hist.started > 0

\* C9: every validation pass writes val/chamfer and val/diff for its step,
\* and each is the mean in which every validation sample counts once, with
\* the same weight.
C9_ValScalarsOverAllSamples ==
    ValidateEnded =>
        /\ Len(all_chamfer) = data.n_val
        /\ Len(all_point_corr_distance) = data.n_val
        /\ \E c \in writer :
              /\ c.tag = "val/chamfer"
              /\ c.step = epoch
              /\ RatEq(c.value, Rat(SumSeq(all_chamfer), data.n_val))
        /\ \E d \in writer :
              /\ d.tag = "val/diff"
              /\ d.step = epoch
              /\ RatEq(d.value,
                       Rat(SumSeq(all_point_corr_distance), data.n_val))

\* C10: a train/loss or train/grad_norm value written at iteration i is the
\* mean of the losses (gradient norms) accumulated since the write before it
\* or since the start of the epoch, and the accumulators are zero after it.
C10_WrittenIsWindowMean ==
    (pc \in {"train_iter", "validate"} /\ hist.wrote.n > 0) =>
        /\ running = [loss |-> 0, grad |-> 0]
        /\ \E l \in writer :
              /\ l.tag = "train/loss"
              /\ RatEq(l.value, Rat(hist.wrote.loss, hist.wrote.n))
        /\ \E g \in writer :
              /\ g.tag = "train/grad_norm"
              /\ RatEq(g.value, Rat(hist.wrote.grad, hist.wrote.n))

====
